---- MODULE Spec2Model ----
(***************************************************************************)
(* Model of the CultPass support agent (C3/project/starter).               *)
(*                                                                         *)
(*   Spec      the orchestrator graph of agentic/workflow.py driven by     *)
(*             concurrent callers against one MemorySaver checkpointer     *)
(*   SpecTool  one ToolAgent graph (reason <-> tools) of agents.py, run    *)
(*             stand-alone as agent_test_framework.py runs it              *)
(*   SpecRAG   the RAGAgent self-correction graph of agents.py             *)
(*                                                                         *)
(* The graph engine, the add_messages reducer, ToolNode and MemorySaver    *)
(* are library code; they are modelled at the place the repository uses    *)
(* them, by what they do there: the engine applies a node's update through *)
(* the channel reducers after the node returns, and a graph compiled with  *)
(* a checkpointer stores the thread's state after the input is applied and *)
(* after every node that returns.                                          *)
(***************************************************************************)
EXTENDS Integers, Sequences, FiniteSets, TLC

\* ------------------------------------------------------------------ bounds
NumRuns == 2          \* invocations of the orchestrator
MaxCalls == 2         \* tool-call requests in one reasoning message
MaxToolRounds == 2    \* reasoning steps of the stand-alone ToolAgent graph that request tools
MaxEntries == 2       \* calls of the RAG node
NumDbCalls == 2       \* invocations of the database tools
InitialSlots == 1     \* slots_available of the experience before the first call
MaxUses == 2          \* with-blocks of get_session
MaxBody == 2          \* objects a with-block adds to its session
MaxTurns == 3         \* lines the user types into chat_interface

Runs == 1..NumRuns
Threads == {"t1", "t2"}
UserInputs == {"Cancel my subscription"}
ToolTexts == {"Success", "Error"}

None == "None"
NoId == <<>>
NoCheckpoint == [absent |-> TRUE]

\* ---------------------------------------------------------------- messages
HumanMessage(content, name) ==
    [type |-> "human", id |-> NoId, name |-> name, content |-> content,
     tool_calls |-> <<>>, tool_call_id |-> NoId]

AIMessage(id, content, calls) ==
    [type |-> "ai", id |-> id, name |-> None, content |-> content,
     tool_calls |-> calls, tool_call_id |-> NoId]

ToolMessage(content, name, call_id) ==
    [type |-> "tool", id |-> NoId, name |-> name, content |-> content,
     tool_calls |-> <<>>, tool_call_id |-> call_id]

IsPrefix(s, t) == Len(s) <= Len(t) /\ SubSeq(t, 1, Len(s)) = s
IsStrictPrefix(s, t) == IsPrefix(s, t) /\ Len(s) < Len(t)
Last(s) == s[Len(s)]

\* ------------------------------------------------- AgentState and reducers
\* Channels of a thread that has no checkpoint yet.
AgentState ==
    [messages |-> <<>>, user_id |-> None, user_info |-> None,
     ticket_status |-> None, next_step |-> None]

NumNoId(seq) == Cardinality({i \in DOMAIN seq : seq[i].id = NoId})

\* A message without an id gets a fresh one: <<r, k>> is the k-th id made
\* in run r.
RECURSIVE AssignIds(_, _, _)
AssignIds(seq, r, k) ==
    IF seq = <<>> THEN <<>>
    ELSE IF Head(seq).id = NoId
         THEN <<[Head(seq) EXCEPT !.id = <<r, k + 1>>]>> \o AssignIds(Tail(seq), r, k + 1)
         ELSE <<Head(seq)>> \o AssignIds(Tail(seq), r, k)

RECURSIVE MergeById(_, _)
MergeById(left, right) ==
    IF right = <<>> THEN left
    ELSE LET m == Head(right)
             at == {i \in DOMAIN left : left[i].id = m.id}
         IN  MergeById(IF at # {} THEN [left EXCEPT ![CHOOSE i \in at : TRUE] = m]
                       ELSE Append(left, m),
                       Tail(right))

add_messages_replace(left, right, r, k) == AssignIds(right, r, k)

\* The reducer of AgentState.messages: a message whose id is already in the
\* list replaces that entry in place, any other message is appended.
add_messages(left, right, r, k) ==
    MergeById(AssignIds(left, r, k), AssignIds(right, r, k + NumNoId(left)))

\* One node update merged into the state: messages through its reducer,
\* every other field overwritten, absent fields untouched.
ApplyUpdate_reset(s, u, r, k) ==
    [f \in DOMAIN s |->
        IF f \in DOMAIN u
        THEN IF f = "messages" THEN add_messages(s.messages, u.messages, r, k)
             ELSE u[f]
        ELSE AgentState[f]]

ApplyUpdate(s, u, r, k) ==
    [f \in DOMAIN s |->
        IF f \in DOMAIN u
        THEN IF f = "messages" THEN add_messages(s.messages, u.messages, r, k)
             ELSE u[f]
        ELSE s[f]]

\* ------------------------------------------------------------- supervisor
\* RouteDecision as first defined (agents.py:11) and as redefined (agents.py:63);
\* the second definition is the one bound when SupervisorAgent.route runs.
RouteDecisionFirst ==
    {"manage_subscription", "manage_reservations", "consult_kb", "escalate"}

RouteDecision ==
    {"manage_bookings", "manage_reservations", "manage_account", "consult_kb", "escalate"}

\* What the generation capability may hand to the structured-output parser:
\* a label of the schema, or one outside it.
CapabilityLabels == RouteDecision \cup {"manage_subscription", "billing"}

Parses_unvalidated(l) == TRUE

\* with_structured_output(RouteDecision): the reply parses only if its
\* next_step is one of the Literal's values.
Parses(l) == l \in RouteDecision

TriageEdges_crossed ==
    [l \in RouteDecisionFirst |-> IF l = "consult_kb" THEN "escalate" ELSE l]

\* Destination map of the conditional edge out of triage.
TriageEdges ==
    [l \in {"manage_subscription", "manage_reservations", "consult_kb", "escalate"} |-> l]

SpecialistNodes == {"manage_subscription", "manage_reservations", "consult_kb"}

\* -------------------------------------------------------------- ToolAgent
ToolNames == {"lookup_customer"}

\* Steps the engine gives one invocation of a compiled graph when the
\* caller's config names none.
recursion_limit == 25

\* Replies of the bound model: a message with 0..maxCalls tool-call requests.
LLMReplies(r, k, maxCalls) ==
    {AIMessage(<<r, k + 1>>, "reply",
               [i \in 1..n |-> [id |-> <<r, k + 1, i>>, name |-> nm]]) :
        n \in 0..maxCalls, nm \in ToolNames}

reason(ai) == [messages |-> <<ai>>]

should_continue_stale(state) ==
    IF /\ Len(state.messages) >= 2
       /\ Len(state.messages[Len(state.messages) - 1].tool_calls) > 0
    THEN "tools" ELSE "END"

should_continue(state) ==
    IF Len(Last(state.messages).tool_calls) > 0 THEN "tools" ELSE "END"

ToolNode_reversed(state, res) ==
    LET calls == Last(state.messages).tool_calls
        n == Len(calls)
    IN  [messages |-> [i \in 1..n |->
                          ToolMessage(res[n + 1 - i], calls[n + 1 - i].name,
                                      calls[n + 1 - i].id)]]

\* ToolNode: one ToolMessage per request of the last message, in request
\* order, each carrying the id of its request; res[i] is the text the i-th
\* invocation produced.
ToolNode(state, res) ==
    LET calls == Last(state.messages).tool_calls
    IN  [messages |-> [i \in 1..Len(calls) |->
                          ToolMessage(res[i], calls[i].name, calls[i].id)]]

\* What the bound model does over one specialist call inside the
\* orchestrator: the number of tool-call requests of each of its replies.
\* The stand-alone graph below explores the replies without a script.
ReplyScripts == {<<0>>, <<2, 0>>}
ScriptToolTexts == {"Success"}

\* Outcomes of graph.invoke on a ToolAgent graph entered at reason with
\* state s: ok = FALSE when a reasoning call raised. `made` collects the
\* messages the nodes of the loop returned.
RECURSIVE ToolLoop(_, _, _, _, _)
ToolLoop(s, r, k, script, made) ==
    {[ok |-> FALSE, state |-> s, nid |-> k, made |-> made]} \cup
    UNION {
        LET s1 == ApplyUpdate(s, reason(ai), r, k + 1)
            n  == Len(ai.tool_calls)
        IN  IF should_continue(s1) = "END"
            THEN {[ok |-> TRUE, state |-> s1, nid |-> k + 1, made |-> Append(made, ai)]}
            ELSE UNION {
                   LET s2 == ApplyUpdate(s1, ToolNode(s1, res), r, k + 1)
                   IN  ToolLoop(s2, r, k + 1 + n, Tail(script),
                                Append(made, ai) \o
                                AssignIds(ToolNode(s1, res).messages, r, k + 1))
                   : res \in [1..n -> ScriptToolTexts]}
        : ai \in {m \in LLMReplies(r, k, Head(script)) :
                     Len(m.tool_calls) = Head(script)}}

ToolAgentInvoke(input, r, k) ==
    UNION {ToolLoop(ApplyUpdate(AgentState, input, r, k), r, k, script, <<>>) :
              script \in ReplyScripts}

\* ------------------------------------------------------------------- state
VARIABLES
    store,      \* MemorySaver: thread_id -> latest checkpoint of the thread
    pc,         \* per run: idle, input, triage, a node name, done, failed
    thread,     \* per run: the thread_id of its config
    st,         \* per run: the channel values the run works on
    pre,        \* per run: the checkpoint it loaded
    nid,        \* per run: ids made so far
    label,      \* per run: what supervisor.route returned
    err,        \* per run: why it failed
    ret,        \* per run: what invoke returned
    overlap,    \* per run: another run on its thread was active meanwhile
    made,       \* per run: the messages the nodes of its specialist's graph returned
    raw,        \* per run: the label the capability handed to the parser
    trace,      \* per run: the nodes it executed, in order
    finals      \* states in which some run reached END

gvars == <<store, pc, thread, st, pre, nid, label, err, ret, overlap, made, raw, trace,
           finals>>

\* The stand-alone ToolAgent graph.
VARIABLES
    tpc,        \* START, reason, tools, END, failed
    tstate,     \* the graph's AgentState
    tnid,       \* ids made so far
    trounds,    \* reasoning steps that requested tools
    tsteps      \* nodes the engine has run in this invocation

tvars == <<tpc, tstate, tnid, trounds, tsteps>>

\* The RAG node.
VARIABLES
    rpc,          \* idle, retrieve, generate, evaluate, reformulate, END, failed
    rag,          \* RAGState of the call in progress
    outer,        \* messages of the AgentState the node is called with
    entries,      \* calls of the node so far
    verdicts,     \* this call: what the judge meant, per evaluate step
    nRetrieve,    \* this call: retrieve steps
    nGenerate,    \* this call: generate steps
    nEvaluate,    \* this call: evaluate steps
    nReformulate  \* this call: reformulate steps

rvars == <<rpc, rag, outer, entries, verdicts, nRetrieve, nGenerate, nEvaluate, nReformulate>>

\* The database tools of the MCP server.
VARIABLES
    subs,       \* cultpass.db: user_id -> status of the user's subscription
    slots,      \* cultpass.db: experience_id -> slots_available
    resv,       \* cultpass.db: the reservation rows, in insertion order
    dpc,        \* per call: idle, query, commit, refresh, done
    dcall,      \* per call: the tool and its arguments
    dread,      \* per call: the column value its session read
    dres,       \* per call: the text it returned
    draised,    \* per call: the statement of the tool that raised
    dsnap       \* per call: the rows as they were when the tool was invoked

dvars == <<subs, slots, resv, dpc, dcall, dread, dres, draised, dsnap>>

\* One use after another of the context manager get_session.
VARIABLES
    spc,          \* out, body, commit, except, finally
    rows,         \* what the database holds
    pending,      \* what the session holds and has not committed
    uses,         \* with-blocks entered so far
    rows0,        \* this use: rows when the block was entered
    raised,       \* this use: the exception the body or the commit raised
    propagates,   \* this use: the exception on its way out of get_session
    left,         \* this use: how control left the with-statement
    nCommitCalls, \* this use: calls of session.commit
    nCommitted,   \* this use: commits that went through
    nRollback,    \* this use: calls of session.rollback
    nClose        \* this use: calls of session.close

svars == <<spc, rows, pending, uses, rows0, raised, propagates, left, nCommitCalls,
           nCommitted, nRollback, nClose>>

\* chat_interface.
VARIABLES
    cpc,                 \* out, input, invoke, ended, raised
    ticket_id,           \* the thread the conversation runs on
    is_first_iteration,  \* the flag of that name
    trigger,             \* the input of the invocation under way
    history,             \* the messages stored for the thread
    cnid,                \* ids made so far
    turns,               \* what the user typed, in order
    invocations          \* the invocations made: thread_id and messages

cvars == <<cpc, ticket_id, is_first_iteration, trigger, history, cnid, turns,
           invocations>>

\* MultiServerMCPClient of mcp_client.py.
VARIABLES
    mpc,          \* none, new, entering, entered, raised
    connections,  \* the configured servers: names in the order of the dict
    sessions,     \* self.sessions: name -> session
    exit_stack,   \* the contexts entered on self.exit_stack
    got           \* the last get_tools call: its argument and what came of it

mvars == <<mpc, connections, sessions, exit_stack, got>>

vars == <<gvars, tvars, rvars, dvars, svars, cvars, mvars>>

Active(r) == pc[r] \notin {"idle", "done", "failed"}

\* MemorySaver keeps checkpoints per thread_id: get_tuple reads the latest
\* one of the thread named in the config, put replaces it.
get_tuple_latest(t) ==
    IF \A u \in Threads : store[u] = NoCheckpoint THEN NoCheckpoint
    ELSE store[CHOOSE u \in Threads : store[u] # NoCheckpoint]

get_tuple(t) == store[t]

put(t, s) == [store EXCEPT ![t] = s]

Messages(c) == IF c = NoCheckpoint THEN <<>> ELSE c.messages

GraphInit ==
    /\ store = [t \in Threads |-> NoCheckpoint]
    /\ pc = [r \in Runs |-> "idle"]
    /\ thread = [r \in Runs |-> None]
    /\ st = [r \in Runs |-> AgentState]
    /\ pre = [r \in Runs |-> NoCheckpoint]
    /\ nid = [r \in Runs |-> 0]
    /\ label = [r \in Runs |-> None]
    /\ err = [r \in Runs |-> None]
    /\ ret = [r \in Runs |-> None]
    /\ overlap = [r \in Runs |-> FALSE]
    /\ made = [r \in Runs |-> <<>>]
    /\ raw = [r \in Runs |-> None]
    /\ trace = [r \in Runs |-> <<>>]
    /\ finals = {}

\* agent.invoke(input=trigger, config=config), first half: the engine reads
\* the thread's latest checkpoint.
Invoke(r, t) ==
    /\ pc[r] = "idle"
    /\ pc' = [pc EXCEPT ![r] = "input"]
    /\ thread' = [thread EXCEPT ![r] = t]
    /\ pre' = [pre EXCEPT ![r] = get_tuple(t)]
    /\ st' = [st EXCEPT ![r] = IF get_tuple(t) = NoCheckpoint THEN AgentState
                                ELSE get_tuple(t)]
    /\ overlap' = [q \in Runs |->
                     IF \E o \in Runs : o # r /\ Active(o) /\ thread[o] = t
                     THEN (q = r \/ (Active(q) /\ thread[q] = t) \/ overlap[q])
                     ELSE overlap[q]]
    /\ UNCHANGED <<store, nid, label, err, ret, made, raw, trace, finals>>
    /\ UNCHANGED <<tvars, rvars, dvars, svars, cvars, mvars>>

\* Second half: the trigger {"messages": [HumanMessage(user_input)]} is
\* merged into the loaded state and the result is checkpointed.
ApplyInput(r, text) ==
    /\ pc[r] = "input"
    /\ LET u == [messages |-> <<HumanMessage(text, None)>>]
           s == ApplyUpdate(st[r], u, r, nid[r])
       IN  /\ st' = [st EXCEPT ![r] = s]
           /\ store' = put(thread[r], s)
           /\ nid' = [nid EXCEPT ![r] = @ + 1]
    /\ pc' = [pc EXCEPT ![r] = "triage"]
    /\ UNCHANGED <<thread, pre, label, err, ret, overlap, made, raw, trace, finals>>
    /\ UNCHANGED <<tvars, rvars, dvars, svars, cvars, mvars>>

Fail(r, why) ==
    /\ pc' = [pc EXCEPT ![r] = "failed"]
    /\ err' = [err EXCEPT ![r] = why]

\* triage_node followed by the conditional edge lambda x: x["next_step"].
TriageRaise(r) ==
    /\ pc[r] = "triage"
    /\ Fail(r, "CapabilityError")
    /\ trace' = [trace EXCEPT ![r] = Append(@, "triage")]
    /\ UNCHANGED <<store, thread, st, pre, nid, label, ret, overlap, made, raw, finals>>
    /\ UNCHANGED <<tvars, rvars, dvars, svars, cvars, mvars>>

TriageInvalid(r, l) ==
    /\ pc[r] = "triage"
    /\ ~Parses(l)
    /\ Fail(r, "ValidationError")
    /\ raw' = [raw EXCEPT ![r] = l]
    /\ trace' = [trace EXCEPT ![r] = Append(@, "triage")]
    /\ UNCHANGED <<store, thread, st, pre, nid, label, ret, overlap, made, finals>>
    /\ UNCHANGED <<tvars, rvars, dvars, svars, cvars, mvars>>

TriageUnmapped(r, l) ==
    /\ pc[r] = "triage"
    /\ Parses(l)
    /\ l \notin DOMAIN TriageEdges
    /\ label' = [label EXCEPT ![r] = l]
    /\ raw' = [raw EXCEPT ![r] = l]
    /\ trace' = [trace EXCEPT ![r] = Append(@, "triage")]
    /\ Fail(r, "KeyError")
    /\ UNCHANGED <<store, thread, st, pre, nid, ret, overlap, made, finals>>
    /\ UNCHANGED <<tvars, rvars, dvars, svars, cvars, mvars>>

TriageRoute(r, l) ==
    /\ pc[r] = "triage"
    /\ Parses(l)
    /\ l \in DOMAIN TriageEdges
    /\ label' = [label EXCEPT ![r] = l]
    /\ raw' = [raw EXCEPT ![r] = l]
    /\ trace' = [trace EXCEPT ![r] = Append(@, "triage")]
    /\ LET s == ApplyUpdate(st[r], [next_step |-> l], r, nid[r])
       IN  /\ st' = [st EXCEPT ![r] = s]
           /\ store' = put(thread[r], s)
    /\ pc' = [pc EXCEPT ![r] = TriageEdges[l]]
    /\ UNCHANGED <<thread, pre, nid, err, ret, overlap, made, finals>>
    /\ UNCHANGED <<tvars, rvars, dvars, svars, cvars, mvars>>

\* A node wired straight to END returned update u: merge, checkpoint, and
\* invoke returns the final channel values.
Finish(r, u, k) ==
    LET s == ApplyUpdate(st[r], u, r, k)
    IN  /\ st' = [st EXCEPT ![r] = s]
        /\ store' = put(thread[r], s)
        /\ ret' = [ret EXCEPT ![r] = s]
        /\ finals' = finals \cup {s}
        /\ nid' = [nid EXCEPT ![r] = k + NumNoId(u.messages)]
        /\ pc' = [pc EXCEPT ![r] = "done"]

\* sub_node / res_node / kb_node: run the specialist's graph on the state
\* and return what it appended.
SpecialistNode(r, node) ==
    /\ pc[r] = node
    /\ \E out \in ToolAgentInvoke(st[r], r, nid[r]) :
          IF out.ok
          THEN /\ Finish(r, [messages |-> SubSeq(out.state.messages,
                                                  Len(st[r].messages) + 1,
                                                  Len(out.state.messages))],
                         out.nid)
               /\ made' = [made EXCEPT ![r] = out.made]
               /\ UNCHANGED <<thread, pre, label, err, overlap>>
          ELSE /\ Fail(r, "CapabilityError")
               /\ UNCHANGED <<store, thread, st, pre, nid, label, ret, overlap, made, finals>>
    /\ trace' = [trace EXCEPT ![r] = Append(@, node)]
    /\ UNCHANGED <<raw, tvars, rvars, dvars, svars, cvars, mvars>>

sub_node(r) == SpecialistNode(r, "manage_subscription")
res_node(r) == SpecialistNode(r, "manage_reservations")
kb_node(r) == SpecialistNode(r, "consult_kb")

escalate_node(r) ==
    /\ pc[r] = "escalate"
    /\ Finish(r, [messages |-> <<HumanMessage("I have escalated your ticket to a human agent. They will contact you shortly.",
                                         "System")>>],
              nid[r])
    /\ UNCHANGED <<thread, pre, label, err, overlap, made>>
    /\ trace' = [trace EXCEPT ![r] = Append(@, "escalate")]
    /\ UNCHANGED <<raw, tvars, rvars, dvars, svars, cvars, mvars>>

Next ==
    \E r \in Runs :
        \/ \E t \in Threads : Invoke(r, t)
        \/ \E text \in UserInputs : ApplyInput(r, text)
        \/ TriageRaise(r)
        \/ \E l \in CapabilityLabels : TriageInvalid(r, l)
        \/ \E l \in CapabilityLabels : TriageUnmapped(r, l)
        \/ \E l \in CapabilityLabels : TriageRoute(r, l)
        \/ sub_node(r)
        \/ res_node(r)
        \/ kb_node(r)
        \/ escalate_node(r)

\* ------------------------------------------- ToolAgent graph, stand-alone
\* agent_graph.invoke(test_state) of agent_test_framework.py: the graph of
\* ToolAgent._build_graph stepped node by node.
ToolInit ==
    /\ tpc = "START"
    /\ tstate = AgentState
    /\ tnid = 0
    /\ trounds = 0
    /\ tsteps = 0

ToolInvoke(query) ==
    /\ tpc = "START"
    /\ tstate' = ApplyUpdate(AgentState,
                             [messages |-> <<HumanMessage(query, None)>>,
                              user_id |-> None, user_info |-> None,
                              ticket_status |-> None, next_step |-> None],
                             0, tnid)
    /\ tnid' = tnid + 1
    /\ tpc' = "reason"
    /\ UNCHANGED <<trounds, tsteps>>
    /\ UNCHANGED <<gvars, rvars, dvars, svars, cvars, mvars>>

\* Node reason, then the conditional edge should_continue on the merged state.
ToolReason(ai) ==
    /\ tpc = "reason"
    /\ tsteps < recursion_limit
    /\ tsteps' = tsteps + 1
    /\ tstate' = ApplyUpdate(tstate, reason(ai), 0, tnid + 1)
    /\ tnid' = tnid + 1
    /\ tpc' = should_continue(tstate')
    /\ trounds' = IF should_continue(tstate') = "tools" THEN trounds + 1 ELSE trounds
    /\ UNCHANGED <<gvars, rvars, dvars, svars, cvars, mvars>>

ToolReasonRaise ==
    /\ tpc = "reason"
    /\ tsteps < recursion_limit
    /\ tpc' = "failed"
    /\ tsteps' = tsteps + 1
    /\ UNCHANGED <<tstate, tnid, trounds>>
    /\ UNCHANGED <<gvars, rvars, dvars, svars, cvars, mvars>>

ToolAct_unbounded ==
    /\ tpc = "tools"
    /\ tsteps' = tsteps + 1
    /\ \E res \in [1..Len(Last(tstate.messages).tool_calls) -> ToolTexts] :
          tstate' = ApplyUpdate(tstate, ToolNode(tstate, res), 0, tnid)
    /\ tnid' = tnid + Len(Last(tstate.messages).tool_calls)
    /\ tpc' = "reason"
    /\ UNCHANGED trounds
    /\ UNCHANGED <<gvars, rvars, dvars, svars, cvars, mvars>>

\* Node tools, then the edge back to reason.
ToolAct ==
    /\ tpc = "tools"
    /\ tsteps < recursion_limit
    /\ tsteps' = tsteps + 1
    /\ \E res \in [1..Len(Last(tstate.messages).tool_calls) -> ToolTexts] :
          tstate' = ApplyUpdate(tstate, ToolNode(tstate, res), 0, tnid)
    /\ tnid' = tnid + Len(Last(tstate.messages).tool_calls)
    /\ tpc' = "reason"
    /\ UNCHANGED trounds
    /\ UNCHANGED <<gvars, rvars, dvars, svars, cvars, mvars>>

\* The engine stops an invocation that has used up its steps and still has
\* a node to run: invoke raises GraphRecursionError.
ToolOutOfSteps ==
    /\ tpc \in {"reason", "tools"}
    /\ tsteps >= recursion_limit
    /\ tpc' = "out_of_steps"
    /\ UNCHANGED <<tstate, tnid, trounds, tsteps>>
    /\ UNCHANGED <<gvars, rvars, dvars, svars, cvars, mvars>>

\* Replies of a model that asks for one tool or for none, with no limit on
\* how often it asks.
LoopReplies(k) ==
    {AIMessage(<<0, k + 1>>, "reply",
               [i \in 1..n |-> [id |-> <<0, k + 1, i>>, name |-> nm]]) :
        n \in {0, 1}, nm \in ToolNames}

NextLoop ==
    \/ \E query \in UserInputs : ToolInvoke(query)
    \/ \E ai \in LoopReplies(tnid) : ToolReason(ai)
    \/ ToolReasonRaise
    \/ ToolAct
    \/ ToolOutOfSteps

NextTool ==
    \/ \E query \in UserInputs : ToolInvoke(query)
    \/ \E ai \in LLMReplies(0, tnid, IF trounds < MaxToolRounds THEN MaxCalls ELSE 0) :
          ToolReason(ai)
    \/ ToolReasonRaise
    \/ ToolAct

\* ---------------------------------------------------------------- RAGAgent
max_retries == 3

\* Texts are sequences of characters, so that strip, upper and `in` act on them.
Blank == {" ", "\n"}
YES == <<"Y", "E", "S">>

upper(text) ==
    [i \in DOMAIN text |->
        CASE text[i] = "y" -> "Y" [] text[i] = "e" -> "E" [] text[i] = "s" -> "S"
          [] text[i] = "n" -> "N" [] text[i] = "o" -> "O" [] OTHER -> text[i]]

RECURSIVE lstrip(_)
lstrip(text) ==
    IF text # <<>> /\ Head(text) \in Blank THEN lstrip(Tail(text)) ELSE text

RECURSIVE rstrip(_)
rstrip(text) ==
    IF text # <<>> /\ Last(text) \in Blank
    THEN rstrip(SubSeq(text, 1, Len(text) - 1)) ELSE text

strip(text) == rstrip(lstrip(text))

Contains(sub, text) ==
    \E i \in 0..(Len(text) - Len(sub)) : SubSeq(text, i + 1, i + Len(sub)) = sub

\* Answers of the judge to "Respond with 'YES' or 'NO'", with what it meant.
EvalReplies ==
    {[text |-> <<"Y", "E", "S">>, pass |-> TRUE],
     [text |-> <<" ", "y", "e", "s", "\n">>, pass |-> TRUE],
     [text |-> <<"Y", "e", "s", ".">>, pass |-> TRUE],
     [text |-> <<"N", "O">>, pass |-> FALSE],
     [text |-> <<"n", "o", ".">>, pass |-> FALSE]}

\* What the retrieval tool hands back: one string or a list of strings.
RetrieverOutputs ==
    {[isstr |-> TRUE, value |-> "doc"],
     [isstr |-> FALSE, value |-> <<>>],
     [isstr |-> FALSE, value |-> <<"doc1", "doc2">>]}

Generations == {"answer1", "answer2"}
\* Questions that reach the knowledge agent as the caller's last message.
Questions == {"How do I book?", "What is CultPass?"}
Rewrites == {"rewritten query"}

RagUpdate(s, u) == [f \in DOMAIN s |-> IF f \in DOMAIN u THEN u[f] ELSE s[f]]

_reformulate_query_by2(state, content) ==
    [query |-> content, attempt |-> state.attempt + 2]

_reformulate_query_keep(state, content) ==
    [query |-> content, attempt |-> state.attempt]

_reformulate_query(state, content) ==
    [query |-> content, attempt |-> state.attempt + 1]

_retrieve(state, docs) ==
    [documents |-> IF docs.isstr THEN <<docs.value>> ELSE docs.value]

_generate(state, content) == [generation |-> content]

_evaluate(state, content) == [evaluation |-> upper(strip(content))]

_check_quality_gt(state) ==
    IF Contains(YES, state.evaluation) THEN "good"
    ELSE IF state.attempt > max_retries THEN "max_retries"
    ELSE "bad"

_check_quality_eq(state) ==
    IF state.evaluation = YES THEN "good"
    ELSE IF state.attempt >= max_retries THEN "max_retries"
    ELSE "bad"

_check_quality(state) ==
    IF Contains(YES, state.evaluation) THEN "good"
    ELSE IF state.attempt >= max_retries THEN "max_retries"
    ELSE "bad"

EvaluateEdges_swapped == [good |-> "END", max_retries |-> "reformulate", bad |-> "END"]

EvaluateEdges == [good |-> "END", max_retries |-> "END", bad |-> "reformulate"]

FallbackAnswer == "I couldn't find a good answer in the knowledge base."

RAGState ==
    [query |-> "", documents |-> <<>>, generation |-> "", evaluation |-> <<>>,
     attempt |-> 0, final_answer |-> ""]

RagInit ==
    /\ rpc = "idle"
    /\ rag = RAGState
    /\ outer = <<>>
    /\ entries = 0
    /\ verdicts = <<>>
    /\ nRetrieve = 0
    /\ nGenerate = 0
    /\ nEvaluate = 0
    /\ nReformulate = 0

RagCall_stale(text) ==
    /\ rpc = "idle"
    /\ entries < MaxEntries
    /\ outer' = Append(outer, HumanMessage(text, None))
    /\ rag' = RagUpdate(rag, [query |-> Last(outer').content])
    /\ rpc' = "retrieve"
    /\ entries' = entries + 1
    /\ verdicts' = <<>>
    /\ nRetrieve' = 0 /\ nGenerate' = 0 /\ nEvaluate' = 0 /\ nReformulate' = 0
    /\ UNCHANGED <<gvars, tvars, dvars, svars, cvars, mvars>>

\* as_node._call, steps 1 and 2 up to the START edge: the caller's state
\* ends with the user's new message.
RagCall(text) ==
    /\ rpc = "idle"
    /\ entries < MaxEntries
    /\ outer' = Append(outer, HumanMessage(text, None))
    /\ rag' = [query |-> Last(outer').content, attempt |-> 0, documents |-> <<>>,
               generation |-> "", evaluation |-> <<>>, final_answer |-> ""]
    /\ rpc' = "retrieve"
    /\ entries' = entries + 1
    /\ verdicts' = <<>>
    /\ nRetrieve' = 0 /\ nGenerate' = 0 /\ nEvaluate' = 0 /\ nReformulate' = 0
    /\ UNCHANGED <<gvars, tvars, dvars, svars, cvars, mvars>>

RagRetrieve(docs) ==
    /\ rpc = "retrieve"
    /\ rag' = RagUpdate(rag, _retrieve(rag, docs))
    /\ nRetrieve' = nRetrieve + 1
    /\ rpc' = "generate"
    /\ UNCHANGED <<outer, entries, verdicts, nGenerate, nEvaluate, nReformulate>>
    /\ UNCHANGED <<gvars, tvars, dvars, svars, cvars, mvars>>

RagGenerate(content) ==
    /\ rpc = "generate"
    /\ rag' = RagUpdate(rag, _generate(rag, content))
    /\ nGenerate' = nGenerate + 1
    /\ rpc' = "evaluate"
    /\ UNCHANGED <<outer, entries, verdicts, nRetrieve, nEvaluate, nReformulate>>
    /\ UNCHANGED <<gvars, tvars, dvars, svars, cvars, mvars>>

\* Node evaluate, then the conditional edge _check_quality on the merged state.
RagEvaluate(reply) ==
    /\ rpc = "evaluate"
    /\ rag' = RagUpdate(rag, _evaluate(rag, reply.text))
    /\ verdicts' = Append(verdicts, reply.pass)
    /\ nEvaluate' = nEvaluate + 1
    /\ rpc' = EvaluateEdges[_check_quality(rag')]
    /\ UNCHANGED <<outer, entries, nRetrieve, nGenerate, nReformulate>>
    /\ UNCHANGED <<gvars, tvars, dvars, svars, cvars, mvars>>

RagReformulate(content) ==
    /\ rpc = "reformulate"
    /\ rag' = RagUpdate(rag, _reformulate_query(rag, content))
    /\ nReformulate' = nReformulate + 1
    /\ rpc' = "retrieve"
    /\ UNCHANGED <<outer, entries, verdicts, nRetrieve, nGenerate, nEvaluate>>
    /\ UNCHANGED <<gvars, tvars, dvars, svars, cvars, mvars>>

\* A capability call of the current node raised: the call of the node raises.
RagRaise ==
    /\ rpc \in {"retrieve", "generate", "evaluate", "reformulate"}
    /\ rpc' = "failed"
    /\ UNCHANGED <<rag, outer, entries, verdicts, nRetrieve, nGenerate, nEvaluate,
                   nReformulate>>
    /\ UNCHANGED <<gvars, tvars, dvars, svars, cvars, mvars>>

\* as_node._call, step 3: the result is wrapped as one AIMessage.
RagReturn ==
    /\ rpc = "END"
    /\ LET final_content == IF "generation" \in DOMAIN rag THEN rag.generation
                            ELSE FallbackAnswer
       IN  outer' = Append(outer, [AIMessage(NoId, final_content, <<>>)
                                      EXCEPT !.name = "KnowledgeAgent"])
    /\ rpc' = "idle"
    /\ UNCHANGED <<rag, entries, verdicts, nRetrieve, nGenerate, nEvaluate, nReformulate>>
    /\ UNCHANGED <<gvars, tvars, dvars, svars, cvars, mvars>>

NextRAG ==
    \/ \E text \in Questions : RagCall(text)
    \/ \E docs \in RetrieverOutputs : RagRetrieve(docs)
    \/ \E content \in Generations : RagGenerate(content)
    \/ \E reply \in EvalReplies : RagEvaluate(reply)
    \/ \E content \in Rewrites : RagReformulate(content)
    \/ RagRaise
    \/ RagReturn

\* ------------------------------------------- database tools (mcp_server)
\* cancel_subscription_action and create_reservation_action, statement by
\* statement. Each call has its own session; the SELECT of a call and its
\* commit are separate steps, so calls served by different server processes
\* interleave between them.
DbCalls == 1..NumDbCalls
DbTools == {"cancel_subscription_action", "create_reservation_action"}
UserIds == {"u1", "u2"}
ExperienceIds == {"e1", "e0"}
NoRow == "NoRow"

DbRequests ==
    {[tool |-> "cancel_subscription_action", user_id |-> u, experience_id |-> None] :
        u \in UserIds}
    \cup {[tool |-> "create_reservation_action", user_id |-> "u1", experience_id |-> e] :
            e \in ExperienceIds}

DbInit ==
    /\ subs = [u \in UserIds |-> IF u = "u1" THEN "active" ELSE NoRow]
    /\ slots = [e \in {"e1"} |-> InitialSlots]
    /\ resv = <<>>
    /\ dpc = [c \in DbCalls |-> "idle"]
    /\ dcall = [c \in DbCalls |-> None]
    /\ dread = [c \in DbCalls |-> None]
    /\ dres = [c \in DbCalls |-> None]
    /\ draised = [c \in DbCalls |-> None]
    /\ dsnap = [c \in DbCalls |-> None]

\* The tool is invoked: session = CultSession().
DbCall(c, req) ==
    /\ dpc[c] = "idle"
    /\ dpc' = [dpc EXCEPT ![c] = "query"]
    /\ dcall' = [dcall EXCEPT ![c] = req]
    /\ dsnap' = [dsnap EXCEPT ![c] = [subs |-> subs, slots |-> slots, resv |-> resv]]
    /\ UNCHANGED <<subs, slots, resv, dread, dres, draised>>
    /\ UNCHANGED <<gvars, tvars, rvars, svars, cvars, mvars>>

\* The value the first statement of the tool reads.
DbRow(req) ==
    IF req.tool = "cancel_subscription_action" THEN subs[req.user_id]
    ELSE IF req.experience_id \in DOMAIN slots THEN slots[req.experience_id]
    ELSE NoRow

DbEarlyReturn_allow_zero(req, row) ==
    IF req.tool = "cancel_subscription_action"
    THEN IF row = NoRow THEN "Subscription not found." ELSE None
    ELSE IF req.experience_id \notin DOMAIN slots \/ row < 0 THEN "Experience not found or fully booked."
         ELSE None

\* The early return of the tool on what it read, or None to go on.
DbEarlyReturn(req, row) ==
    IF req.tool = "cancel_subscription_action"
    THEN IF row = NoRow THEN "Subscription not found." ELSE None
    ELSE IF req.experience_id \notin DOMAIN slots \/ row < 1 THEN "Experience not found or fully booked."
         ELSE None

\* session.query(...).first(), the early return, and the changes made on the
\* loaded objects (pending in the session until commit).
DbQuery(c) ==
    /\ dpc[c] = "query"
    /\ LET row == DbRow(dcall[c])
           early == DbEarlyReturn(dcall[c], row)
       IN  /\ dread' = [dread EXCEPT ![c] = row]
           /\ IF early # None
              THEN /\ dres' = [dres EXCEPT ![c] = early]
                   /\ dpc' = [dpc EXCEPT ![c] = "done"]
              ELSE /\ dpc' = [dpc EXCEPT ![c] = "commit"]
                   /\ UNCHANGED dres
    /\ UNCHANGED <<subs, slots, resv, dcall, draised, dsnap>>
    /\ UNCHANGED <<gvars, tvars, rvars, svars, cvars, mvars>>

\* except Exception: session.rollback(); return f"Error: {e}".
DbExcept(c, at) ==
    /\ dres' = [dres EXCEPT ![c] = "Error"]
    /\ draised' = [draised EXCEPT ![c] = at]
    /\ dpc' = [dpc EXCEPT ![c] = "done"]

DbQueryRaise(c) ==
    /\ dpc[c] = "query"
    /\ DbExcept(c, "query")
    /\ UNCHANGED <<subs, slots, resv, dcall, dread, dsnap>>
    /\ UNCHANGED <<gvars, tvars, rvars, svars, cvars, mvars>>

DbCommit_toggle(c) ==
    /\ dpc[c] = "commit"
    /\ IF dcall[c].tool = "cancel_subscription_action"
       THEN /\ subs' = [subs EXCEPT ![dcall[c].user_id] =
                            IF dread[c] = "cancelled" THEN "active" ELSE "cancelled"]
            /\ UNCHANGED <<slots, resv>>
       ELSE /\ slots' = [slots EXCEPT ![dcall[c].experience_id] = dread[c] - 1]
            /\ resv' = Append(resv, [user_id |-> dcall[c].user_id,
                                     experience_id |-> dcall[c].experience_id,
                                     status |-> "confirmed"])
            /\ UNCHANGED subs
    /\ dpc' = [dpc EXCEPT ![c] = "refresh"]
    /\ UNCHANGED <<dcall, dread, dres, draised, dsnap>>
    /\ UNCHANGED <<gvars, tvars, rvars, svars, cvars, mvars>>

\* session.commit(): the pending changes are written in one transaction.
\* The new slots_available is the value computed from what was read.
DbCommit(c) ==
    /\ dpc[c] = "commit"
    /\ IF dcall[c].tool = "cancel_subscription_action"
       THEN /\ subs' = [subs EXCEPT ![dcall[c].user_id] = "cancelled"]
            /\ UNCHANGED <<slots, resv>>
       ELSE /\ slots' = [slots EXCEPT ![dcall[c].experience_id] = dread[c] - 1]
            /\ resv' = Append(resv, [user_id |-> dcall[c].user_id,
                                     experience_id |-> dcall[c].experience_id,
                                     status |-> "confirmed"])
            /\ UNCHANGED subs
    /\ dpc' = [dpc EXCEPT ![c] = "refresh"]
    /\ UNCHANGED <<dcall, dread, dres, draised, dsnap>>
    /\ UNCHANGED <<gvars, tvars, rvars, svars, cvars, mvars>>

DbCommitRaise_norollback(c) ==
    /\ dpc[c] = "commit"
    /\ DbExcept(c, "commit")
    /\ IF dcall[c].tool = "cancel_subscription_action"
       THEN /\ subs' = [subs EXCEPT ![dcall[c].user_id] = "cancelled"]
            /\ UNCHANGED <<slots, resv>>
       ELSE /\ slots' = [slots EXCEPT ![dcall[c].experience_id] = dread[c] - 1]
            /\ UNCHANGED <<subs, resv>>
    /\ UNCHANGED <<dcall, dread, dsnap>>
    /\ UNCHANGED <<gvars, tvars, rvars, svars, cvars, mvars>>

\* session.commit() raises (the database is locked, or cannot be written):
\* the transaction is rolled back and the database keeps its rows.
DbCommitRaise(c) ==
    /\ dpc[c] = "commit"
    /\ DbExcept(c, "commit")
    /\ UNCHANGED <<subs, slots, resv, dcall, dread, dsnap>>
    /\ UNCHANGED <<gvars, tvars, rvars, svars, cvars, mvars>>

\* The text of the tool's last return statement. A subscription's id is the
\* one of the user's row; a reservation's id is made anew by every call.
DbSuccessText(req) ==
    IF req.tool = "cancel_subscription_action"
    THEN IF req.user_id = "u1" THEN "Success: Subscription s1 cancelled."
         ELSE "Success: Subscription s2 cancelled."
    ELSE "Success: Reservation confirmed."

\* return f"Success: ...": the id is read from the object, which the commit
\* expired, so it is loaded again first.
DbReturn(c) ==
    /\ dpc[c] = "refresh"
    /\ dres' = [dres EXCEPT ![c] = DbSuccessText(dcall[c])]
    /\ dpc' = [dpc EXCEPT ![c] = "done"]
    /\ UNCHANGED <<subs, slots, resv, dcall, dread, draised, dsnap>>
    /\ UNCHANGED <<gvars, tvars, rvars, svars, cvars, mvars>>

\* That load raises: the same except clause answers, after the commit.
DbRefreshRaise(c) ==
    /\ dpc[c] = "refresh"
    /\ DbExcept(c, "refresh")
    /\ UNCHANGED <<subs, slots, resv, dcall, dread, dsnap>>
    /\ UNCHANGED <<gvars, tvars, rvars, svars, cvars, mvars>>

\* The tool is invoked when no other invocation is under way.
DbCallAlone(c, req) ==
    /\ \A o \in DbCalls : dpc[o] \in {"idle", "done"}
    /\ DbCall(c, req)

\* Invocations one after another.
NextDBSeq ==
    \/ \E c \in DbCalls, req \in DbRequests : DbCallAlone(c, req)
    \/ \E c \in DbCalls : DbQuery(c)
    \/ \E c \in DbCalls : DbQueryRaise(c)
    \/ \E c \in DbCalls : DbCommit(c)
    \/ \E c \in DbCalls : DbCommitRaise(c)
    \/ \E c \in DbCalls : DbReturn(c)
    \/ \E c \in DbCalls : DbRefreshRaise(c)

NextDB ==
    \/ \E c \in DbCalls, req \in DbRequests : DbCall(c, req)
    \/ \E c \in DbCalls : DbQuery(c)
    \/ \E c \in DbCalls : DbQueryRaise(c)
    \/ \E c \in DbCalls : DbCommit(c)
    \/ \E c \in DbCalls : DbCommitRaise(c)
    \/ \E c \in DbCalls : DbReturn(c)
    \/ \E c \in DbCalls : DbRefreshRaise(c)

\* ------------------------------------------------- get_session (utils)
Items == {"a", "b"}
\* What a statement may raise: an Exception or another BaseException.
Exceptions == {"ValueError", "KeyboardInterrupt"}

Catches_exceptions_only(e) == e # "KeyboardInterrupt"

\* `except:` without a class catches every BaseException.
Catches(e) == TRUE

NoRaise == [at |-> "nowhere", exc |-> None]

SessInit ==
    /\ spc = "out"
    /\ rows = <<>>
    /\ pending = <<>>
    /\ uses = 0
    /\ rows0 = <<>>
    /\ raised = NoRaise
    /\ propagates = None
    /\ left = None
    /\ nCommitCalls = 0
    /\ nCommitted = 0
    /\ nRollback = 0
    /\ nClose = 0

\* with get_session(engine) as session: Session() and the yield.
SessEnter ==
    /\ spc = "out"
    /\ uses < MaxUses
    /\ uses' = uses + 1
    /\ spc' = "body"
    /\ pending' = <<>>
    /\ rows0' = rows
    /\ raised' = NoRaise /\ propagates' = None /\ left' = None
    /\ nCommitCalls' = 0 /\ nCommitted' = 0 /\ nRollback' = 0 /\ nClose' = 0
    /\ UNCHANGED <<rows>>
    /\ UNCHANGED <<gvars, tvars, rvars, dvars, cvars, mvars>>

\* The body adds an object to the session.
SessBodyAdd(item) ==
    /\ spc = "body"
    /\ Len(pending) < MaxBody
    /\ pending' = Append(pending, item)
    /\ UNCHANGED <<spc, rows, uses, rows0, raised, propagates, left, nCommitCalls,
                   nCommitted, nRollback, nClose>>
    /\ UNCHANGED <<gvars, tvars, rvars, dvars, cvars, mvars>>

\* The body ends: control is back after the yield.
SessBodyEnd ==
    /\ spc = "body"
    /\ spc' = "commit"
    /\ UNCHANGED <<rows, pending, uses, rows0, raised, propagates, left, nCommitCalls,
                   nCommitted, nRollback, nClose>>
    /\ UNCHANGED <<gvars, tvars, rvars, dvars, cvars, mvars>>

\* The body raises: the exception is thrown into the generator at the yield.
SessBodyRaise(e) ==
    /\ spc = "body"
    /\ raised' = [at |-> "body", exc |-> e]
    /\ propagates' = e
    /\ spc' = IF Catches(e) THEN "except" ELSE "finally"
    /\ UNCHANGED <<rows, pending, uses, rows0, left, nCommitCalls, nCommitted,
                   nRollback, nClose>>
    /\ UNCHANGED <<gvars, tvars, rvars, dvars, cvars, mvars>>

\* session.commit() goes through.
SessCommit ==
    /\ spc = "commit"
    /\ rows' = rows \o pending
    /\ pending' = <<>>
    /\ nCommitCalls' = nCommitCalls + 1
    /\ nCommitted' = nCommitted + 1
    /\ spc' = "finally"
    /\ UNCHANGED <<uses, rows0, raised, propagates, left, nRollback, nClose>>
    /\ UNCHANGED <<gvars, tvars, rvars, dvars, cvars, mvars>>

\* session.commit() raises.
SessCommitRaise(e) ==
    /\ spc = "commit"
    /\ nCommitCalls' = nCommitCalls + 1
    /\ raised' = [at |-> "commit", exc |-> e]
    /\ propagates' = e
    /\ spc' = IF Catches(e) THEN "except" ELSE "finally"
    /\ UNCHANGED <<rows, pending, uses, rows0, left, nCommitted, nRollback, nClose>>
    /\ UNCHANGED <<gvars, tvars, rvars, dvars, cvars, mvars>>

\* except: session.rollback(); raise.
SessExcept ==
    /\ spc = "except"
    /\ pending' = <<>>
    /\ nRollback' = nRollback + 1
    /\ spc' = "finally"
    /\ UNCHANGED <<rows, uses, rows0, raised, propagates, left, nCommitCalls,
                   nCommitted, nClose>>
    /\ UNCHANGED <<gvars, tvars, rvars, dvars, cvars, mvars>>

\* finally: session.close(); then control leaves the with-statement,
\* normally or with the exception that is on its way out.
SessFinally ==
    /\ spc = "finally"
    /\ nClose' = nClose + 1
    /\ pending' = <<>>
    /\ left' = IF propagates = None THEN "returned" ELSE propagates
    /\ spc' = "out"
    /\ UNCHANGED <<rows, uses, rows0, raised, propagates, nCommitCalls, nCommitted,
                   nRollback>>
    /\ UNCHANGED <<gvars, tvars, rvars, dvars, cvars, mvars>>

NextSession ==
    \/ SessEnter
    \/ \E item \in Items : SessBodyAdd(item)
    \/ SessBodyEnd
    \/ \E e \in Exceptions : SessBodyRaise(e)
    \/ SessCommit
    \/ \E e \in Exceptions : SessCommitRaise(e)
    \/ SessExcept
    \/ SessFinally

\* ----------------------------------------------- chat_interface (utils)
\* Lines the user may type, as sequences of characters.
ChatInputs ==
    {<<"q">>, <<"q", "u", "i", "t">>, <<"Q", "u", "i", "t">>, <<"E", "X", "I", "T">>,
     <<"h", "i">>, <<"q", "u", "i", "t", " ">>}

lower(text) ==
    [i \in DOMAIN text |->
        CASE text[i] = "Q" -> "q" [] text[i] = "U" -> "u" [] text[i] = "I" -> "i"
          [] text[i] = "T" -> "t" [] text[i] = "E" -> "e" [] text[i] = "X" -> "x"
          [] OTHER -> text[i]]

\* user_input.lower() in ["quit", "exit", "q"]
IsQuit(user_input) ==
    lower(user_input) \in {<<"q", "u", "i", "t">>, <<"e", "x", "i", "t">>, <<"q">>}

FirstIteration_true == TRUE

\* is_first_iteration = False, before the loop.
FirstIteration == FALSE

\* What the agent leaves as its last message: a specialist's answer or the
\* escalation notice.
ChatReplies(k) ==
    {<<AIMessage(<<0, k + 1>>, "reply", <<>>)>>,
     <<HumanMessage("I have escalated your ticket to a human agent. They will contact you shortly.",
                    "System")>>}

ChatInit ==
    /\ cpc = "out"
    /\ ticket_id = None
    /\ is_first_iteration = FALSE
    /\ trigger = <<>>
    /\ history = <<>>
    /\ cnid = 0
    /\ turns = <<>>
    /\ invocations = <<>>

\* chat_interface(agent, ticket_id) is called: the statements before the loop.
ChatStart(t) ==
    /\ cpc = "out"
    /\ ticket_id' = t
    /\ is_first_iteration' = FirstIteration
    /\ cpc' = "input"
    /\ UNCHANGED <<trigger, history, cnid, turns, invocations>>
    /\ UNCHANGED <<gvars, tvars, rvars, dvars, svars, mvars>>

\* The user types a line that ends the loop.
ChatQuit(user_input) ==
    /\ cpc = "input"
    /\ Len(turns) < MaxTurns
    /\ IsQuit(user_input)
    /\ turns' = Append(turns, user_input)
    /\ cpc' = "ended"
    /\ UNCHANGED <<ticket_id, is_first_iteration, trigger, history, cnid, invocations>>
    /\ UNCHANGED <<gvars, tvars, rvars, dvars, svars, mvars>>

\* The user types any other line: the trigger is built and agent.invoke is
\* called with the ticket's thread_id; the engine merges the trigger into
\* the thread's messages and stores them.
ChatTurn(user_input) ==
    /\ cpc = "input"
    /\ Len(turns) < MaxTurns
    /\ ~IsQuit(user_input)
    /\ turns' = Append(turns, user_input)
    /\ LET messages == <<HumanMessage(user_input, None)>>
                           \o (IF is_first_iteration
                               THEN <<HumanMessage(user_input, None)>> ELSE <<>>)
       IN  /\ trigger' = messages
           /\ invocations' = Append(invocations, [thread_id |-> ticket_id, messages |-> messages])
           /\ history' = add_messages(history, messages, 0, cnid)
           /\ cnid' = cnid + Len(messages)
    /\ cpc' = "invoke"
    /\ UNCHANGED <<ticket_id, is_first_iteration>>
    /\ UNCHANGED <<gvars, tvars, rvars, dvars, svars, mvars>>

\* agent.invoke returns; the last message is printed and the flag is reset.
ChatAnswer(reply) ==
    /\ cpc = "invoke"
    /\ history' = add_messages(history, reply, 0, cnid)
    /\ cnid' = cnid + 1
    /\ is_first_iteration' = FALSE
    /\ cpc' = "input"
    /\ UNCHANGED <<ticket_id, trigger, turns, invocations>>
    /\ UNCHANGED <<gvars, tvars, rvars, dvars, svars, mvars>>

\* agent.invoke raises: nothing in chat_interface catches it.
ChatRaise ==
    /\ cpc = "invoke"
    /\ cpc' = "raised"
    /\ UNCHANGED <<ticket_id, is_first_iteration, trigger, history, cnid, turns,
                   invocations>>
    /\ UNCHANGED <<gvars, tvars, rvars, dvars, svars, mvars>>

NextChat ==
    \/ \E t \in Threads : ChatStart(t)
    \/ \E user_input \in ChatInputs : ChatQuit(user_input)
    \/ \E user_input \in ChatInputs : ChatTurn(user_input)
    \/ \E reply \in ChatReplies(cnid) : ChatAnswer(reply)
    \/ ChatRaise

\* ------------------------------------------- MultiServerMCPClient (local)
\* MCP_SERVERS as it is, and with further servers as its comment proposes.
ServerNames == {"subscription_service", "reservation_service", "unified_service"}

Configurations ==
    {<<"subscription_service">>,
     <<"subscription_service", "reservation_service">>,
     <<"reservation_service", "subscription_service">>,
     <<"unified_service">>,
     <<>>}

\* What list_tools of a server may answer.
Advertised ==
    {<<>>,
     <<[name |-> "lookup_customer", description |-> "d1"]>>,
     <<[name |-> "lookup_customer", description |-> "d1"],
       [name |-> "search_knowledge_base", description |-> "d2"]>>}

NoSessions == [n \in {} |-> None]
NoCall == [server_name |-> None, advertised |-> <<>>, tools |-> <<>>, raised |-> FALSE]

MCPInit ==
    /\ mpc = "none"
    /\ connections = <<>>
    /\ sessions = NoSessions
    /\ exit_stack = <<>>
    /\ got = NoCall

\* MultiServerMCPClient(connections)
MCPNew(conf) ==
    /\ mpc = "none"
    /\ connections' = conf
    /\ mpc' = "new"
    /\ UNCHANGED <<sessions, exit_stack, got>>
    /\ UNCHANGED <<gvars, tvars, rvars, dvars, svars, cvars>>

\* __aenter__ is awaited.
MCPEnter ==
    /\ mpc = "new"
    /\ mpc' = IF connections = <<>> THEN "entered" ELSE "entering"
    /\ UNCHANGED <<connections, sessions, exit_stack, got>>
    /\ UNCHANGED <<gvars, tvars, rvars, dvars, svars, cvars>>

\* The connection the loop of __aenter__ is at: the first without session.
Pending == connections[Len(exit_stack) \div 2 + 1]

Register(name, initialized) ==
    [n \in DOMAIN sessions \cup {name} |->
        IF n = name THEN [server |-> name, initialized |-> initialized]
        ELSE sessions[n]]

MCPConnect_uninitialized ==
    /\ mpc = "entering"
    /\ exit_stack' = exit_stack \o <<[stdio |-> Pending], [session |-> Pending]>>
    /\ sessions' = Register(Pending, FALSE)
    /\ mpc' = IF Len(exit_stack') = 2 * Len(connections) THEN "entered" ELSE "entering"
    /\ UNCHANGED <<connections, got>>
    /\ UNCHANGED <<gvars, tvars, rvars, dvars, svars, cvars>>

\* One round of the loop: stdio_client and ClientSession are entered on
\* the exit stack, the session is initialized and then stored under the
\* name; after the last round __aenter__ returns.
MCPConnect ==
    /\ mpc = "entering"
    /\ exit_stack' = exit_stack \o <<[stdio |-> Pending], [session |-> Pending]>>
    /\ sessions' = Register(Pending, TRUE)
    /\ mpc' = IF Len(exit_stack') = 2 * Len(connections) THEN "entered" ELSE "entering"
    /\ UNCHANGED <<connections, got>>
    /\ UNCHANGED <<gvars, tvars, rvars, dvars, svars, cvars>>

\* An await of the round raises (the server does not start or does not
\* answer initialize): __aenter__ raises, with the sessions made so far.
MCPConnectRaise ==
    /\ mpc = "entering"
    /\ mpc' = "raised"
    /\ UNCHANGED <<connections, sessions, exit_stack, got>>
    /\ UNCHANGED <<gvars, tvars, rvars, dvars, svars, cvars>>

_create_langchain_tool(mcp_tool, session) ==
    [name |-> mcp_tool.name, description |-> mcp_tool.description,
     session |-> session.server]

\* get_tools(server_name), list_tools answering adv.
get_tools(server_name, adv) ==
    /\ mpc \in {"new", "entering", "entered", "raised"}
    /\ got' = IF server_name \notin DOMAIN sessions
              THEN [server_name |-> server_name, advertised |-> adv, tools |-> <<>>,
                    raised |-> FALSE]
              ELSE [server_name |-> server_name, advertised |-> adv,
                    tools |-> [i \in DOMAIN adv |->
                                 _create_langchain_tool(adv[i], sessions[server_name])],
                    raised |-> FALSE]
    /\ UNCHANGED <<mpc, connections, sessions, exit_stack>>
    /\ UNCHANGED <<gvars, tvars, rvars, dvars, svars, cvars>>

\* get_tools(server_name) when list_tools raises.
get_tools_raise(server_name) ==
    /\ mpc \in {"new", "entering", "entered", "raised"}
    /\ server_name \in DOMAIN sessions
    /\ got' = [server_name |-> server_name, advertised |-> <<>>, tools |-> <<>>,
               raised |-> TRUE]
    /\ UNCHANGED <<mpc, connections, sessions, exit_stack>>
    /\ UNCHANGED <<gvars, tvars, rvars, dvars, svars, cvars>>

NextMCP ==
    \/ \E conf \in Configurations : MCPNew(conf)
    \/ MCPEnter
    \/ MCPConnect
    \/ MCPConnectRaise
    \/ \E server_name \in ServerNames, adv \in Advertised : get_tools(server_name, adv)
    \/ \E server_name \in ServerNames : get_tools_raise(server_name)

\* ---------------------------------------------------------- specifications
Init == GraphInit /\ ToolInit /\ RagInit /\ DbInit /\ SessInit /\ ChatInit /\ MCPInit

Spec == Init /\ [][Next]_vars

SpecTool == Init /\ [][NextTool]_vars

SpecLoop == Init /\ [][NextLoop]_vars

SpecRAG == Init /\ [][NextRAG]_vars

\* The engine runs the node the sub-loop is at: a node that can run does run.
RagStep ==
    \/ \E docs \in RetrieverOutputs : RagRetrieve(docs)
    \/ \E content \in Generations : RagGenerate(content)
    \/ \E reply \in EvalReplies : RagEvaluate(reply)
    \/ \E content \in Rewrites : RagReformulate(content)

SpecDB == Init /\ [][NextDB]_vars

SpecDBSeq == Init /\ [][NextDBSeq]_vars

SpecSession == Init /\ [][NextSession]_vars

SpecChat == Init /\ [][NextChat]_vars

SpecMCP == Init /\ [][NextMCP]_vars

\* The ToolAgent graph next to the server whose tools it calls.
NextToolDB ==
    \/ \E query \in UserInputs : ToolInvoke(query)
    \/ \E ai \in LLMReplies(0, tnid, IF trounds < MaxToolRounds THEN MaxCalls ELSE 0) :
          ToolReason(ai)
    \/ ToolReasonRaise
    \/ ToolAct
    \/ \E c \in DbCalls, req \in DbRequests : DbCall(c, req)
    \/ \E c \in DbCalls : DbQuery(c)
    \/ \E c \in DbCalls : DbQueryRaise(c)
    \/ \E c \in DbCalls : DbCommit(c)
    \/ \E c \in DbCalls : DbCommitRaise(c)
    \/ \E c \in DbCalls : DbReturn(c)
    \/ \E c \in DbCalls : DbRefreshRaise(c)

SpecToolDB == Init /\ [][NextToolDB]_vars

SpecRAGFair == Init /\ [][NextRAG]_vars /\ WF_vars(RagStep)

\* ======================================================= claims on Spec

OnThread(t) == {r \in Runs : pc[r] # "idle" /\ thread[r] = t}

MessagesOf(seq) == {seq[i] : i \in DOMAIN seq}

\* C1 - Routing completeness: every label supervisor.route returned has a
\* destination in the conditional edge out of triage, so no run is left
\* after triage with a label that has no successor node.
C1_RoutingCompleteness ==
    \A r \in Runs : label[r] # None => label[r] \in DOMAIN TriageEdges

\* C2 - Append-only: every step of a run extends the run's messages (no
\* node update truncates, replaces or reorders earlier messages); when a
\* run reaches END the stored messages of its thread strictly extend the
\* messages it loaded; and on a thread whose runs follow one another the
\* stored messages only ever grow by extension.
C2_AppendOnly ==
    [][/\ \A r \in Runs :
            pc[r] # "idle" => IsPrefix(st[r].messages, st'[r].messages)
       /\ \A r \in Runs :
            (pc[r] # "done" /\ pc'[r] = "done")
               => IsStrictPrefix(Messages(pre[r]), Messages(store'[thread[r]]))
       /\ \A t \in Threads :
            (\A q \in Runs : thread'[q] = t => ~overlap'[q])
               => IsPrefix(Messages(store[t]), Messages(store'[t]))]_vars

\* A second run, following the first on the same thread, has reached END.
C2_Witness ==
    \E r \in Runs :
        /\ pc[r] = "done"
        /\ ~overlap[r]
        /\ Len(Messages(pre[r])) > 0
        /\ Len(made[r]) > 1
        /\ store[thread[r]] = st[r]

\* C3 - Delta correctness: what a run returns is exactly
\* finalMessages[len(priorMessages):], and a specialist node contributes
\* exactly the messages its graph's nodes returned.
C3_DeltaCorrectness ==
    \A r \in Runs :
        pc[r] = "done" =>
            /\ ret[r].messages = SubSeq(st[r].messages, Len(Messages(pre[r])) + 1,
                                        Len(st[r].messages))
            /\ label[r] \in SpecialistNodes =>
                  st[r].messages = SubSeq(st[r].messages, 1, Len(Messages(pre[r])) + 1)
                                      \o made[r]

\* C4 - Abort leaves no trace: when a run has failed and no other run used
\* its thread, the thread's stored checkpoint is the one the run loaded.
C4_AbortLeavesNoTrace ==
    \A r \in Runs :
        (pc[r] = "failed" /\ OnThread(thread[r]) = {r})
            => store[thread[r]] = pre[r]

\* C5 - Only complete runs are stored: a thread's checkpoint is absent or
\* is the state in which some run reached END.
C5_OnlyCompleteRunsStored ==
    \A t \in Threads : store[t] = NoCheckpoint \/ store[t] \in finals

\* C9 - Checkpoint isolation: whatever a run on one thread loads, works on,
\* returns or stores was made by runs on that thread; a thread's checkpoint
\* holds only messages and routes of runs on that thread.
FromThread(c, t) ==
    c # NoCheckpoint =>
        /\ \A m \in MessagesOf(c.messages) :
              m.id[1] \in Runs /\ pc[m.id[1]] # "idle" /\ thread[m.id[1]] = t
        /\ c.next_step \in {None} \cup {label[q] : q \in OnThread(t)}

C9_CheckpointIsolation ==
    /\ \A t \in Threads : FromThread(store[t], t)
    /\ \A r \in Runs :
          pc[r] # "idle" =>
              /\ FromThread(pre[r], thread[r])
              /\ FromThread(st[r], thread[r])
              /\ pc[r] = "done" => FromThread(ret[r], thread[r])

\* Two runs on different threads are in progress at once, each past its
\* first checkpoint.
C9_Witness ==
    \E r, q \in Runs :
        /\ thread[r] = "t1" /\ thread[q] = "t2"
        /\ pc[r] \in SpecialistNodes /\ pc[q] \in SpecialistNodes
        /\ store["t1"] # NoCheckpoint /\ store["t2"] # NoCheckpoint

\* C10 - Same-thread serialization: when two runs on one thread have both
\* reached END, the thread's checkpoint holds the messages of both.
C10_NoLostUpdate ==
    \A r, q \in Runs :
        (r # q /\ pc[r] = "done" /\ pc[q] = "done" /\ thread[r] = thread[q])
            => /\ MessagesOf(st[r].messages) \subseteq MessagesOf(store[thread[r]].messages)
               /\ MessagesOf(st[q].messages) \subseteq MessagesOf(store[thread[r]].messages)

Count(seq, x) == Cardinality({i \in DOMAIN seq : seq[i] = x})

Loaded(r) == IF pre[r] = NoCheckpoint THEN AgentState ELSE pre[r]

\* C11 - Route validation: the next_step a run or a checkpoint holds is
\* always a label of RouteDecision (or still unset); when the capability
\* hands back a label outside RouteDecision the run has failed in triage
\* with a validation error, nothing was routed, and next_step is still the
\* value the run loaded.
C11_RouteValidated ==
    /\ \A r \in Runs :
          pc[r] # "idle" => st[r].next_step \in RouteDecision \cup {None}
    /\ \A t \in Threads :
          store[t] # NoCheckpoint => store[t].next_step \in RouteDecision \cup {None}
    /\ \A r \in Runs :
          (raw[r] # None /\ raw[r] \notin RouteDecision)
             => /\ pc[r] = "failed"
                /\ err[r] = "ValidationError"
                /\ label[r] = None
                /\ trace[r] = <<"triage">>
                /\ st[r].next_step = Loaded(r).next_step

\* A run whose thread already had a route was handed a label outside the
\* schema and failed.
C11_Witness ==
    \E r \in Runs :
        /\ raw[r] # None /\ raw[r] \notin RouteDecision
        /\ pc[r] = "failed"
        /\ pre[r] # NoCheckpoint
        /\ pre[r].next_step \in RouteDecision
        /\ store[thread[r]].next_step = pre[r].next_step

\* C12 - Build-time rejection: a graph whose router can produce a label its
\* destination map lacks is never run, so no run fails in triage on a
\* label that has no destination.
C12_UnmappedLabelRejectedAtBuild ==
    \A r \in Runs :
        ~(pc[r] = "failed" /\ err[r] = "KeyError" /\ trace[r] = <<"triage">>)

\* C14 - Frame: a triage step leaves every field but next_step as it was; a
\* specialist step and the escalate step leave every field but messages as
\* they were, in the run's state and in the checkpoint the step writes.
C14_PartialUpdateFrame ==
    [][\A r \in Runs :
          /\ (pc[r] = "triage" /\ pc'[r] # "triage")
                => \A f \in DOMAIN st[r] \ {"next_step"} : st'[r][f] = st[r][f]
          /\ (pc[r] \in SpecialistNodes \cup {"escalate"} /\ pc'[r] # pc[r])
                => /\ \A f \in DOMAIN st[r] \ {"messages"} : st'[r][f] = st[r][f]
                   /\ pc'[r] = "done"
                         => \A f \in DOMAIN st[r] \ {"messages"} :
                               store'[thread[r]][f] = st[r][f]]_vars

\* A run that loaded earlier messages and an earlier route went through
\* triage and a specialist.
C14_Witness ==
    \E r \in Runs :
        /\ pc[r] = "done"
        /\ label[r] \in SpecialistNodes
        /\ Len(Messages(pre[r])) > 0
        /\ Loaded(r).next_step # None
        /\ Len(st[r].messages) > Len(Messages(pre[r])) + 1

\* C15 - Shape of a successful run: a run never executes triage twice; a
\* run that reached END executed triage and then exactly the one node
\* named by the label the supervisor returned, that node being one of the
\* four wired to END; and the next_step it returns and leaves in the
\* thread's checkpoint is that label.
C15_SuccessfulRunShape ==
    [][\A r \in Runs :
          /\ Count(trace'[r], "triage") <= 1
          /\ pc'[r] = "done"
                => /\ trace'[r] = <<"triage", label'[r]>>
                   /\ label'[r] \in RouteDecisionFirst
                   /\ ret'[r].next_step = label'[r]
                   /\ pc[r] # "done" => store'[thread[r]].next_step = label'[r]]_vars

\* A run routed to consult_kb has reached END on a thread whose previous
\* route was another one.
C15_Witness ==
    \E r \in Runs :
        /\ pc[r] = "done"
        /\ label[r] = "consult_kb"
        /\ pre[r] # NoCheckpoint
        /\ pre[r].next_step \in RouteDecision \ {"consult_kb"}

\* ==================================================== claims on SpecRAG

AllFail == \A i \in DOMAIN verdicts : ~verdicts[i]

\* C6 - Retrieval loop bound: with max_retries = 3 and a judge that fails
\* every cycle, the loop ends after exactly 4 retrieve/generate/evaluate
\* cycles and exactly 3 reformulate steps, with attempt = 3; before that it
\* has done no more than these.
C6_RetrievalLoopBound ==
    AllFail =>
        /\ nRetrieve <= 4 /\ nGenerate <= 4 /\ nEvaluate <= 4 /\ nReformulate <= 3
        /\ rpc = "END" =>
              /\ nRetrieve = 4 /\ nGenerate = 4 /\ nEvaluate = 4
              /\ nReformulate = 3
              /\ rag.attempt = 3

\* The loop has ended on a fourth failed evaluation.
C6_Witness ==
    rpc = "END" /\ Len(verdicts) = 4 /\ AllFail

\* C7 - Early accept: when the judge fails cycles 1..k-1 and passes cycle k,
\* the loop ends right after the k-th evaluate, having done exactly k
\* cycles and k-1 reformulate steps, with attempt = k-1 and k <= max_retries+1.
C7_EarlyAccept ==
    (verdicts # <<>> /\ Last(verdicts)) =>
        LET k == Len(verdicts)
        IN  /\ rpc \in {"END", "idle"}
            /\ k >= 1 /\ k <= max_retries + 1
            /\ \A i \in 1..(k - 1) : ~verdicts[i]
            /\ nRetrieve = k /\ nGenerate = k /\ nEvaluate = k
            /\ nReformulate = k - 1
            /\ rag.attempt = k - 1

\* The judge passed the second cycle and the loop has ended.
C7_Witness ==
    rpc = "END" /\ verdicts = <<FALSE, TRUE>> /\ nEvaluate = 2

\* C16 - Routing after evaluate: the step after evaluate is reformulate
\* exactly when the judge failed the answer and attempt < max_retries; a
\* passed answer leaves the loop whatever attempt is, and a failed answer
\* with attempt >= max_retries leaves the loop with the answer it has.
C16_EvaluateRouting ==
    [][(rpc = "evaluate" /\ rpc' \notin {"evaluate", "failed"})
          => LET pass == Last(verdicts')
             IN  /\ rpc' = "reformulate" <=> (~pass /\ rag.attempt < max_retries)
                 /\ pass => rpc' = "END"
                 /\ (~pass /\ rag.attempt >= max_retries)
                       => rpc' = "END" /\ rag'.generation = rag.generation
                 /\ rpc' \in {"reformulate", "END"}]_vars

\* The judge failed the answer with one retry left: reformulate is next.
C16_Witness ==
    /\ rpc = "reformulate"
    /\ rag.attempt = max_retries - 1
    /\ verdicts # <<>> /\ ~Last(verdicts)

\* C17 - attempt: inside the loop attempt stays within 0..max_retries and
\* never decreases; only a reformulate step changes it, and by exactly 1;
\* retrieve, generate and evaluate leave attempt and query as they were.
C17_AttemptInvariant ==
    [][/\ rag.attempt \in 0..max_retries /\ rag'.attempt \in 0..max_retries
       /\ rpc # "idle" => rag'.attempt >= rag.attempt
       /\ (rpc # "idle" /\ rag'.attempt # rag.attempt) => rpc = "reformulate"
       /\ (rpc = "reformulate" /\ rpc' = "retrieve")
             => rag'.attempt = rag.attempt + 1
       /\ rpc \in {"retrieve", "generate", "evaluate"}
             => rag'.attempt = rag.attempt /\ rag'.query = rag.query]_vars

\* The last allowed reformulate has been made and retrieval runs again.
C17_Witness ==
    /\ rpc = "retrieve"
    /\ rag.attempt = max_retries
    /\ rag.query \in Rewrites

\* C18 - Termination: whatever the judge answers, a sub-loop that is
\* running eventually stops (at END, or failed when a capability call did
\* not return a result), and never makes more than max_retries reformulate
\* steps or more than max_retries + 1 retrieve, generate or evaluate steps.
C18_Terminates ==
    /\ [](/\ nReformulate <= max_retries
          /\ nRetrieve <= max_retries + 1
          /\ nGenerate <= max_retries + 1
          /\ nEvaluate <= max_retries + 1)
    /\ (rpc \in {"retrieve", "generate", "evaluate", "reformulate"})
          ~> (rpc \in {"END", "failed"})

\* The loop has stopped at END after the longest run it can make, with
\* verdicts that were not all the same.
C18_Witness ==
    /\ rpc = "END"
    /\ nEvaluate = max_retries + 1
    /\ nReformulate = max_retries
    /\ Last(verdicts)

\* C19 - Entry and exit of as_node: a call starts the loop from a state
\* whose query is the content of the caller's last message and whose other
\* fields are the defaults, whatever an earlier call left behind; the
\* answer changes only in a generate step; and the return appends to the
\* caller's messages exactly one message, by KnowledgeAgent, whose content
\* is the answer of the last generate step (at least one was made, so the
\* fallback text is not used).
C19_FreshEntrySingleExit ==
    [][/\ (rpc = "idle" /\ rpc' # "idle")
             => /\ rag' = [RAGState EXCEPT !.query = Last(outer').content]
                /\ rag'.attempt = 0
       /\ rag'.generation # rag.generation => rpc \in {"idle", "generate"}
       /\ (rpc = "END" /\ rpc' = "idle")
             => /\ Len(outer') = Len(outer) + 1
                /\ IsPrefix(outer, outer')
                /\ nGenerate >= 1
                /\ Last(outer') = [AIMessage(NoId, rag.generation, <<>>)
                                      EXCEPT !.name = "KnowledgeAgent"]
                /\ Last(outer').content \in Generations]_vars

\* A second call, with another question, has returned after a retry; the
\* first call had returned before it.
C19_Witness ==
    /\ rpc = "idle"
    /\ entries = 2
    /\ Len(outer) = 4
    /\ outer[1].content # outer[3].content
    /\ outer[2].content # outer[4].content
    /\ rag.attempt > 0

\* =================================================== claims on SpecTool

\* C8 - Tool loop correlation: a reasoning message with n >= 1 tool-call
\* requests leads to the tools node, which appends exactly n tool messages,
\* the i-th carrying the id of the i-th request, and then control is back
\* at reason.
C8_ToolLoopCorrelation ==
    [][/\ (tpc = "reason" /\ tpc' # "failed"
             /\ Len(Last(tstate'.messages).tool_calls) >= 1) => tpc' = "tools"
       /\ tpc = "tools" =>
             LET calls == Last(tstate.messages).tool_calls
                 n == Len(calls)
                 old == Len(tstate.messages)
             IN  /\ n >= 1
                 /\ Len(tstate'.messages) = old + n
                 /\ SubSeq(tstate'.messages, 1, old) = tstate.messages
                 /\ \A i \in 1..n :
                       /\ tstate'.messages[old + i].type = "tool"
                       /\ tstate'.messages[old + i].tool_call_id = calls[i].id
                 /\ tpc' = "reason"]_vars

\* The tools node has answered a message that carried two requests.
C8_Witness ==
    /\ tpc = "reason"
    /\ Len(tstate.messages) >= 4
    /\ LET len == Len(tstate.messages)
           calls == tstate.messages[len - 2].tool_calls
       IN  /\ Len(calls) = 2
           /\ tstate.messages[len - 1].tool_call_id = calls[1].id
           /\ tstate.messages[len].tool_call_id = calls[2].id
           /\ tstate.messages[len - 1].content # tstate.messages[len].content

\* C20 - Tool-loop routing: a reason step appends one message and then
\* goes to tools exactly when that message carries at least one tool-call
\* request and to END exactly when it carries none, the decision being
\* taken on the state that holds the new message; the tools node is never
\* entered unless the last message carries a request.
C20_ToolLoopRouting ==
    [][/\ (tpc = "reason" /\ tpc' \notin {"reason", "failed"})
             => LET m == Last(tstate'.messages)
                IN  /\ Len(tstate'.messages) = Len(tstate.messages) + 1
                    /\ IsPrefix(tstate.messages, tstate'.messages)
                    /\ m.type = "ai"
                    /\ tpc' = "tools" <=> Len(m.tool_calls) >= 1
                    /\ tpc' = "END" <=> Len(m.tool_calls) = 0
       /\ tpc' = "tools" => Len(Last(tstate'.messages).tool_calls) >= 1]_vars

\* The loop has left through END after a round of tool calls: the message
\* before the tool results carried requests, the last one carries none.
C20_Witness ==
    /\ tpc = "END"
    /\ trounds >= 1
    /\ Last(tstate.messages).type = "ai"
    /\ Last(tstate.messages).tool_calls = <<>>
    /\ \E i \in DOMAIN tstate.messages : Len(tstate.messages[i].tool_calls) >= 1

\* ================================================= claims on SpecToolDB

Requests(m) == m.type = "ai" /\ Len(m.tool_calls) >= 1

\* C21 - No loop budget, as claimed: however long the model keeps asking
\* for tools, the tool loop is never stopped by an error of the engine.
C21_NoLoopBudget ==
    tpc # "out_of_steps"

\* C21, amended - The graph of the tool loop has no bound of its own, but
\* the engine runs an invocation for at most recursion_limit nodes: while
\* steps are left the loop goes on exactly as its edges say (to tools on a
\* message with requests, to END on one without, back to reason after
\* tools) and is not stopped; with no step left and a node still to run,
\* the invocation stops with an error and the state is left as it was.
C21_StepLimit ==
    [][/\ tsteps' <= recursion_limit
       /\ (tpc = "reason" /\ tpc' = "END")
             => ~Requests(Last(tstate'.messages))
       /\ (tpc \in {"reason", "tools"} /\ tsteps < recursion_limit)
             => tpc' # "out_of_steps"
       /\ (tpc # "out_of_steps" /\ tpc' = "out_of_steps")
             => /\ tsteps = recursion_limit
                /\ tpc \in {"reason", "tools"}
                /\ tstate' = tstate]_vars

\* Every reply asked for a tool and the engine has stopped the invocation.
C21_Witness ==
    /\ tpc = "out_of_steps"
    /\ tsteps = recursion_limit
    /\ \A i \in DOMAIN tstate.messages :
          tstate.messages[i].type = "ai" => Requests(tstate.messages[i])

\* ================================================== claims on SpecDBSeq

Returns(c) == dpc[c] # "done" /\ dpc'[c] = "done"

Confirmed(user, exp) ==
    [user_id |-> user, experience_id |-> exp, status |-> "confirmed"]

\* C22 - Reservations one after another: slots_available never goes below
\* 0; a call of create_reservation_action that returns its success text
\* found the experience with at least one slot, and leaves that slot count
\* one lower, one more reservation (confirmed, for its user and experience)
\* and everything else as it was when the call began; a call that returns
\* "Experience not found or fully booked." leaves every row as it was.
C22_SequentialReservations ==
    [][/\ \A e \in DOMAIN slots' : slots'[e] >= 0
       /\ \A c \in DbCalls :
             (Returns(c) /\ dcall[c].tool = "create_reservation_action")
                => LET e == dcall[c].experience_id
                       was == dsnap[c]
                   IN  /\ dres'[c] = DbSuccessText(dcall[c])
                             => /\ e \in DOMAIN was.slots
                                /\ was.slots[e] >= 1
                                /\ slots' = [was.slots EXCEPT ![e] = @ - 1]
                                /\ resv' = Append(was.resv,
                                                  Confirmed(dcall[c].user_id, e))
                                /\ subs' = was.subs
                       /\ dres'[c] = "Experience not found or fully booked."
                             => /\ slots' = was.slots
                                /\ resv' = was.resv
                                /\ subs' = was.subs
                                /\ (e \notin DOMAIN was.slots \/ was.slots[e] < 1)]_vars

\* The last slot was booked by one call and the next call was turned away.
C22_Witness ==
    \E c, o \in DbCalls :
        /\ dpc[c] = "done" /\ dpc[o] = "done"
        /\ dcall[c] = dcall[o]
        /\ dcall[c].tool = "create_reservation_action"
        /\ dres[c] = DbSuccessText(dcall[c])
        /\ dres[o] = "Experience not found or fully booked."
        /\ slots["e1"] = 0
        /\ Len(resv) = InitialSlots

\* C24 - Cancelling is idempotent. A call of cancel_subscription_action
\* that raises nothing, for a user who has a subscription, returns the
\* success text of that subscription (the same text as every earlier such
\* call) and leaves the subscription cancelled and every other row as it
\* was; when the subscription was cancelled already no row changes at all;
\* for a user without a subscription it returns "Subscription not found."
\* and no row changes.
C24_CancelIdempotent ==
    [][\A c \in DbCalls :
          (Returns(c) /\ dcall[c].tool = "cancel_subscription_action")
             => LET u == dcall[c].user_id
                    was == dsnap[c]
                IN  /\ slots' = was.slots /\ resv' = was.resv
                    /\ was.subs[u] \in {NoRow, "cancelled"} => subs' = was.subs
                    /\ (draised'[c] = None /\ was.subs[u] # NoRow)
                          => /\ dres'[c] = DbSuccessText(dcall[c])
                             /\ subs' = [was.subs EXCEPT ![u] = "cancelled"]
                             /\ \A o \in DbCalls :
                                   (dpc[o] = "done" /\ dcall[o] = dcall[c]
                                       /\ draised[o] = None)
                                      => dres[o] = dres'[c]
                    /\ (draised'[c] = None /\ was.subs[u] = NoRow)
                          => dres'[c] = "Subscription not found."]_vars

\* The same subscription was cancelled twice in a row; both calls returned
\* the success text and the subscription is cancelled.
C24_Witness ==
    \E c, o \in DbCalls :
        /\ c # o
        /\ dpc[c] = "done" /\ dpc[o] = "done"
        /\ dcall[c] = dcall[o]
        /\ dcall[c].tool = "cancel_subscription_action"
        /\ dsnap[c].subs[dcall[c].user_id] = "active"
        /\ dsnap[o].subs[dcall[o].user_id] = "cancelled"
        /\ dres[c] = DbSuccessText(dcall[c]) /\ dres[o] = dres[c]
        /\ subs[dcall[c].user_id] = "cancelled"

\* ===================================================== claims on SpecDB

Reserved(e) ==
    Cardinality({i \in DOMAIN resv :
                    resv[i].experience_id = e /\ resv[i].status = "confirmed"})

\* C23 - Concurrent reservations: however the reads and commits of calls
\* for one experience interleave, the confirmed reservations made for it
\* never outnumber the slots it had, and its slots_available is what it had
\* less the confirmed reservations.
C23_NoOverbooking ==
    \A e \in DOMAIN slots :
        /\ Reserved(e) <= InitialSlots
        /\ slots[e] = InitialSlots - Reserved(e)

\* ================================================ claims on SpecSession

\* C25 - get_session: inside the with-statement the session is not yet
\* closed and commit is called at most once. When control has left it,
\* close was called exactly once; commit was called exactly once if the
\* body ended without raising and never otherwise; if neither the body nor
\* the commit raised, the commit went through, nothing was rolled back and
\* the block's objects are in the database; if one of them raised, rollback
\* was called once, nothing was committed, the database is as it was, and
\* the exception that leaves the with-statement is the one that was raised.
C25_CommitOrRollback ==
    /\ spc # "out" => nClose = 0 /\ nCommitCalls <= 1
    /\ (spc = "out" /\ uses > 0) =>
          /\ nClose = 1
          /\ nCommitCalls <= 1
          /\ nCommitCalls = 1 <=> raised.at # "body"
          /\ raised = NoRaise =>
                /\ nCommitted = 1 /\ nRollback = 0
                /\ left = "returned"
                /\ IsPrefix(rows0, rows)
          /\ raised # NoRaise =>
                /\ nCommitted = 0 /\ nRollback = 1
                /\ left = raised.exc
                /\ rows = rows0

\* A with-block that added objects was left by a KeyboardInterrupt raised
\* in its body, after an earlier block had committed.
C25_Witness ==
    /\ spc = "out"
    /\ uses = 2
    /\ rows # <<>>
    /\ raised.at = "body" /\ raised.exc = "KeyboardInterrupt"
    /\ left = "KeyboardInterrupt"
    /\ nRollback = 1

\* =================================================== claims on SpecChat

QuitWords ==
    {<<"q">>, <<"q", "u", "i", "t">>, <<"Q", "u", "i", "t">>, <<"E", "X", "I", "T">>}

IsSaid(line) == line \notin QuitWords

IsTyped(m) == m.type = "human" /\ m.name = None

\* C26 - Turns of chat_interface: the invocations of the agent are, in
\* order, the typed lines that are not quit, exit or q in any case; each
\* carries the ticket's thread_id and exactly one human message holding
\* that line; a quit line is the last line typed, ends the loop and
\* invokes nothing; and the human messages the user typed, as stored for
\* the thread, are those lines in order, each once.
C26_OneInvocationPerTurn ==
    LET said == SelectSeq(turns, IsSaid)
        typed == SelectSeq(history, IsTyped)
    IN  /\ Len(invocations) = Len(said)
        /\ \A i \in DOMAIN invocations :
              /\ invocations[i].thread_id = ticket_id
              /\ Len(invocations[i].messages) = 1
              /\ invocations[i].messages[1].type = "human"
              /\ invocations[i].messages[1].content = said[i]
        /\ \A i \in DOMAIN turns :
              turns[i] \in QuitWords => i = Len(turns) /\ cpc = "ended"
        /\ cpc = "ended" => turns # <<>> /\ Last(turns) \in QuitWords
        /\ Len(typed) = Len(said)
        /\ \A i \in DOMAIN typed : typed[i].content = said[i]

\* Two lines were answered, one of them "quit " with a blank after it, and
\* then the user left with "Quit".
C26_Witness ==
    /\ cpc = "ended"
    /\ Len(turns) = 3
    /\ turns[1] # turns[2]
    /\ turns[3] = <<"Q", "u", "i", "t">>
    /\ Len(invocations) = 2
    /\ Len(history) = 4


\* The names of a sequence of tools, in order.
Names(tools) == [i \in DOMAIN tools |-> tools[i].name]

Keys(conf) == {conf[i] : i \in DOMAIN conf}

\* C27: once __aenter__ has completed, sessions holds one initialized
\* session for each key of the configured connections and for nothing
\* else, each made for the server it is stored under, with the two
\* contexts of each on the exit stack.  A get_tools call never changes
\* sessions; for a name without session it returns the empty list and does
\* not raise, and for a name with one it returns, unless list_tools raises,
\* one tool per tool the server advertises, with the same name, in the same
\* order, bound to that server's session.
C27_SessionsAndTools ==
    [][
        /\ (mpc' = "entered" =>
            /\ DOMAIN sessions' = Keys(connections')
            /\ \A n \in DOMAIN sessions' :
                   sessions'[n] = [server |-> n, initialized |-> TRUE]
            /\ Len(exit_stack') = 2 * Cardinality(Keys(connections')))
        /\ got' # got =>
            /\ sessions' = sessions
            /\ (got'.server_name \notin DOMAIN sessions =>
                   (got'.tools = <<>> /\ ~got'.raised))
            /\ ((got'.server_name \in DOMAIN sessions /\ ~got'.raised) =>
                   /\ Names(got'.tools) = Names(got'.advertised)
                   /\ \A i \in DOMAIN got'.tools :
                          got'.tools[i].session = got'.server_name)]_vars

\* The client of MCP_SERVERS has entered and holds its one session;
\* get_tools("unified_service"), the call of workflow.py, found no session
\* and returned the empty list.
C27_Witness ==
    /\ mpc = "entered"
    /\ connections = <<"subscription_service">>
    /\ DOMAIN sessions = {"subscription_service"}
    /\ got.server_name = "unified_service"
    /\ got.tools = <<>>
    /\ Len(got.advertised) = 2

====
